---- MODULE Spec2Model ----
(***************************************************************************)
(* Model of apache.aurora.client.cli.context.AuroraCommandContext: the     *)
(* per-cluster API handle cache, the partial job key parser, the job       *)
(* lister, the job resolver, the response validator and the status query.  *)
(*                                                                         *)
(* Python strings are sequences of one-character strings, so that          *)
(* str.split, the `in` operator and fnmatch are computed character by      *)
(* character.  Where a string or a list may be None, None is the value     *)
(* None below.                                                             *)
(***************************************************************************)
EXTENDS Integers, Sequences, FiniteSets, TLC

VARIABLES
  apis,      \* self.apis: the dict cluster name -> API handle
  made,      \* per cluster name, how often make_client was invoked
  failed,    \* per cluster name, how often make_client raised
  asked,     \* the cluster names get_api was called for in the session
  handed,    \* every <<cluster, handle>> that get_api returned in the session
  call,      \* the call the command layer made last, with its arguments
  outcome,   \* what that call gave back: a return value or an exception
  trace,     \* what that call did, in order: cache lookups, constructions, RPCs, log records
  threads,   \* per caller of a shared context, where it is in get_api and what it holds
  dirs,      \* the directories that exist under the temporary directory of the sandboxes
  ops        \* the create and destroy calls made on the sandboxes so far, in order

vars == <<apis, made, failed, asked, handed, call, outcome, trace, threads, dirs, ops>>

-----------------------------------------------------------------------------
(* Bounds of the model. *)

\* longest raw key handed to parse_partial_jobkey, in characters
MaxKeyLen == 5
\* most jobs (or tasks) one remote response lists
MaxJobs == 2
\* most failed client constructions in one session
MaxFailures == 1
\* most get_api calls one of the concurrent callers makes
MaxCalls == 2
\* most create and destroy operations in one sandbox history
MaxOps == 3

-----------------------------------------------------------------------------
(* Values. *)

None == <<"<None>">>

\* gen.apache.aurora.ttypes.ResponseCode
OK == "OK"
ERROR == "ERROR"
ResponseCodes == {OK, ERROR}

\* the exit classifications context.py imports
EXIT_NETWORK_ERROR == "EXIT_NETWORK_ERROR"
EXIT_INVALID_PARAMETER == "EXIT_INVALID_PARAMETER"

\* the registry apache.aurora.common.clusters.CLUSTERS, iterated in a stable order
CLUSTERS == << <<"x">>, <<"y">> >>

\* PartialJobKey = namedtuple('PartialJobKey', ['cluster', 'role', 'env', 'name'])
PartialJobKey(cluster, role, env, name) ==
  [cluster |-> cluster, role |-> role, env |-> env, name |-> name]

\* AuroraJobKey(cluster, role, env, name), as the lister and the resolver build it
AuroraJobKey(cluster, role, env, name) ==
  [cluster |-> cluster, role |-> role, env |-> env, name |-> name]

Range(s) == {s[i] : i \in 1..Len(s)}

SeqsUpTo(S, n) == UNION {[1..k -> S] : k \in 0..n}

-----------------------------------------------------------------------------
(* Outcomes of a call: a returned value, or an exception with its class, its exit
   classification and its message. *)

Return(v) ==
  [kind |-> "return", exc |-> "", code |-> "", msg |-> "", isNone |-> FALSE, value |-> v]

\* a call that returns None (also a function that ends without a return statement)
ReturnNone ==
  [kind |-> "return", exc |-> "", code |-> "", msg |-> "", isNone |-> TRUE, value |-> <<>>]

Raise(exc, code, msg) ==
  [kind |-> "raise", exc |-> exc, code |-> code, msg |-> msg, isNone |-> TRUE, value |-> <<>>]

\* the names bound in context.py's module namespace that an exit classification can use
ModuleGlobals == {"EXIT_NETWORK_ERROR", "EXIT_INVALID_PARAMETER"}

\* raise self.CommandError(<name>, message): the name is looked up first, and a name
\* the module never bound raises NameError instead
RaiseCommandError(name, message) ==
  IF name \in ModuleGlobals
    THEN Raise("CommandError", name, message)
    ELSE Raise("NameError", "", "")

-----------------------------------------------------------------------------
(* Pure functions. *)

\* str.split(sep): the segments between the separators, empty ones included
RECURSIVE SplitLoop(_, _, _, _)
SplitLoop(s, sep, cur, acc) ==
  IF s = <<>> THEN Append(acc, cur)
  ELSE IF Head(s) = sep THEN SplitLoop(Tail(s), sep, <<>>, Append(acc, cur))
  ELSE SplitLoop(Tail(s), sep, Append(cur, Head(s)), acc)

split(s, sep) == SplitLoop(s, sep, <<>>, <<>>)

\* the loop `while len(parts) < 4: parts.append('*')`
RECURSIVE PadParts(_)
PadParts(parts) ==
  IF Len(parts) < 4 THEN PadParts(Append(parts, <<"*">>)) ELSE parts

\* the mutant of parse_partial_jobkey: pads on the left
parse_partial_jobkey_PadLeft(key) ==
  LET parts == split(key, "/")
      RECURSIVE PadL(_)
      PadL(p) == IF Len(p) < 4 THEN PadL(<< <<"*">> >> \o p) ELSE p
  IN IF Len(parts) > 4
       THEN RaiseCommandError("EXIT_INVALID_PARAMETER",
                              "Job key must have no more than 4 segments")
       ELSE LET p == PadL(parts)
            IN Return(PartialJobKey(p[1], p[2], p[3], p[4]))

\* the mutant of parse_partial_jobkey: a key of four segments is rejected too
parse_partial_jobkey_MaxThree(key) ==
  LET parts == split(key, "/")
  IN IF Len(parts) > 3
       THEN RaiseCommandError("EXIT_INVALID_PARAMETER",
                              "Job key must have no more than 4 segments")
       ELSE LET p == PadParts(parts)
            IN Return(PartialJobKey(p[1], p[2], p[3], p[4]))

\* parse_partial_jobkey(key): the outcome, a pattern or a CommandError
parse_partial_jobkey(key) ==
  LET parts == split(key, "/")
  IN IF Len(parts) > 4
       THEN RaiseCommandError("EXIT_INVALID_PARAMETER",
                              "Job key must have no more than 4 segments")
       ELSE LET p == PadParts(parts)
            IN Return(PartialJobKey(p[1], p[2], p[3], p[4]))

\* fnmatch.fnmatch(name, pat) on a POSIX system (normcase is the identity),
\* for patterns without '['
RECURSIVE fnmatch(_, _)
fnmatch(name, pat) ==
  IF pat = <<>> THEN name = <<>>
  ELSE IF Head(pat) = "*"
    THEN fnmatch(name, Tail(pat)) \/ (name # <<>> /\ fnmatch(Tail(name), pat))
  ELSE IF Head(pat) = "?"
    THEN name # <<>> /\ fnmatch(Tail(name), Tail(pat))
  ELSE name # <<>> /\ Head(name) = Head(pat) /\ fnmatch(Tail(name), Tail(pat))

\* is_fully_bound(key): no component contains '*'
is_fully_bound(key) ==
  ~ \E component \in {key.cluster, key.role, key.env, key.name} : "*" \in Range(component)

\* filter_job_list(jobs, role, env, name)
filter_job_list(jobs, role, env, name) ==
  SelectSeq(jobs, LAMBDA job : fnmatch(job.role, role) /\ fnmatch(job.env, env)
                               /\ fnmatch(job.name, name))

-----------------------------------------------------------------------------
(* The values the command layer and the remote side supply. *)

\* names a handle can be asked for: the registry's clusters and a glob that is not '*'
Names == Range(CLUSTERS) \cup { <<"x", "*">> }

\* what the scheduler lists: job.key.role, job.key.environment, job.key.name
JobPool ==
  { [role |-> <<"a">>, env |-> <<"p">>, name |-> <<"n">>],
    [role |-> <<"a", "b">>, env |-> <<"q">>, name |-> <<"n", "n">>] }

TaskPool == {"t1", "t2"}

Messages == {"m1", "m2"}

\* the envelopes of api.get_jobs: OK with a listing, or not OK with a message
JobsResponses ==
  { [responseCode |-> OK, message |-> "", configs |-> l] : l \in SeqsUpTo(JobPool, MaxJobs) }
  \cup { [responseCode |-> ERROR, message |-> m, configs |-> <<>>] : m \in Messages }

\* the envelopes of api.check_status: OK with tasks (a list or None), or not OK
StatusResponses ==
  { [responseCode |-> OK, message |-> "", tasks |-> t] :
      t \in SeqsUpTo(TaskPool, MaxJobs) \cup {None} }
  \cup { [responseCode |-> ERROR, message |-> m, tasks |-> None] : m \in Messages }

RolePool == { <<"a">>, <<"*">>, <<"a", "*">>, <<"a", "?">> }

\* the patterns handed to get_jobs_matching_key
PatternPool ==
  { PartialJobKey(c, r, e, n) :
      c \in Names \cup { <<"*">> }, r \in RolePool,
      e \in { <<"p">>, <<"*">> }, n \in { <<"n">>, <<"n", "?">> } }

\* the cluster sequences handed to get_job_list directly
ClusterLists ==
  { <<>>, << <<"x">> >>, << <<"x">>, <<"y">> >>, << <<"y">>, <<"x">> >>,
    << <<"x">>, <<"x">> >> }

\* the keys handed to get_job_status
StatusKeys == { AuroraJobKey(c, <<"a">>, <<"p">>, <<"n">>) : c \in Range(CLUSTERS) }

\* the raw keys handed to parse_partial_jobkey
RawKeys == SeqsUpTo({"a", "*", "/"}, MaxKeyLen)

-----------------------------------------------------------------------------
(* The session: what a call reads and changes, threaded through the handlers. *)

Session ==
  [apis |-> apis, made |-> made, failed |-> failed, asked |-> asked, handed |-> handed,
   trace |-> <<>>]

Cached(s, cluster) == cluster \in DOMAIN s.apis

\* make_client(cluster): a new client object, named by the cluster and the number of
\* the construction that made it; failAt is the name whose construction raises
make_client(s, cluster, failAt) ==
  LET t == [s EXCEPT !.made[cluster] = @ + 1,
                     !.trace = Append(@, [ev |-> "make_client", cluster |-> cluster,
                                          ok |-> cluster # failAt])]
  IN IF cluster = failAt
       THEN [s |-> [t EXCEPT !.failed[cluster] = @ + 1],
             raised |-> TRUE, api |-> None]
       ELSE [s |-> t, raised |-> FALSE,
             api |-> [cluster |-> cluster, serial |-> s.made[cluster] + 1]]

\* the mutant of get_api: no cache lookup, a client is constructed on every call
get_api_NoLookup(s, cluster, failAt) ==
  LET s1 == [s EXCEPT !.trace = Append(@, [ev |-> "get_api", cluster |-> cluster]),
                      !.asked = @ \cup {cluster}]
      m == make_client(s1, cluster, failAt)
  IN IF m.raised
       THEN [s |-> m.s, raised |-> TRUE, api |-> None]
       ELSE [s |-> [m.s EXCEPT
                      !.apis = [c \in DOMAIN m.s.apis \cup {cluster} |->
                                  IF c = cluster THEN m.api ELSE m.s.apis[c]],
                      !.handed = @ \cup {<<cluster, m.api>>}],
             raised |-> FALSE, api |-> m.api]

\* the mutant of get_api: a failed construction leaves an entry in the cache
get_api_CachesFailure(s, cluster, failAt) ==
  LET s1 == [s EXCEPT !.trace = Append(@, [ev |-> "get_api", cluster |-> cluster]),
                      !.asked = @ \cup {cluster}]
  IN IF ~ Cached(s1, cluster)
       THEN LET m == make_client(s1, cluster, failAt)
                broken == [cluster |-> cluster, serial |-> 0]
                h == IF m.raised THEN broken ELSE m.api
                s2 == [m.s EXCEPT
                         !.apis = [c \in DOMAIN m.s.apis \cup {cluster} |->
                                     IF c = cluster THEN h ELSE m.s.apis[c]]]
            IN IF m.raised
                 THEN [s |-> s2, raised |-> TRUE, api |-> None]
                 ELSE [s |-> [s2 EXCEPT !.handed = @ \cup {<<cluster, m.api>>}],
                       raised |-> FALSE, api |-> m.api]
       ELSE [s |-> [s1 EXCEPT !.handed = @ \cup {<<cluster, s1.apis[cluster]>>}],
             raised |-> FALSE, api |-> s1.apis[cluster]]

\* the mutant of get_api: storing a new handle forgets the handles of the other clusters
get_api_ResetsCache(s, cluster, failAt) ==
  LET s1 == [s EXCEPT !.trace = Append(@, [ev |-> "get_api", cluster |-> cluster]),
                      !.asked = @ \cup {cluster}]
  IN IF ~ Cached(s1, cluster)
       THEN LET m == make_client(s1, cluster, failAt)
            IN IF m.raised
                 THEN [s |-> m.s, raised |-> TRUE, api |-> None]
                 ELSE [s |-> [m.s EXCEPT
                                !.apis = [c \in {cluster} |-> m.api],
                                !.handed = @ \cup {<<cluster, m.api>>}],
                       raised |-> FALSE, api |-> m.api]
       ELSE [s |-> [s1 EXCEPT !.handed = @ \cup {<<cluster, s1.apis[cluster]>>}],
             raised |-> FALSE, api |-> s1.apis[cluster]]

\* get_api(cluster): the session after the call, whether it raised, and the handle
get_api(s, cluster, failAt) ==
  LET s1 == [s EXCEPT !.trace = Append(@, [ev |-> "get_api", cluster |-> cluster]),
                      !.asked = @ \cup {cluster}]
  IN IF ~ Cached(s1, cluster)
       THEN LET m == make_client(s1, cluster, failAt)
            IN IF m.raised
                 THEN [s |-> m.s, raised |-> TRUE, api |-> None]
                 ELSE [s |-> [m.s EXCEPT
                                !.apis = [c \in DOMAIN m.s.apis \cup {cluster} |->
                                            IF c = cluster THEN m.api ELSE m.s.apis[c]],
                                !.handed = @ \cup {<<cluster, m.api>>}],
                       raised |-> FALSE, api |-> m.api]
       ELSE [s |-> [s1 EXCEPT !.handed = @ \cup {<<cluster, s1.apis[cluster]>>}],
             raised |-> FALSE, api |-> s1.apis[cluster]]

\* what make_client raises when construction fails
ClientError == Raise("ClientError", "", "")

-----------------------------------------------------------------------------
(* The handlers.  Each gives the session after the call and the call's outcome.
   failAt is the cluster name whose client construction fails (None: no failure);
   resps and resp are the envelopes the remote side answers with. *)

\* the mutant of check_and_log_response: the code is checked before the record is logged
check_and_log_response_CheckFirst(s, resp) ==
  LET s1 == [s EXCEPT !.trace = Append(@, [ev |-> "log", code |-> resp.responseCode,
                                           message |-> resp.message])]
  IN IF resp.responseCode # OK
       THEN [s |-> s, outcome |-> RaiseCommandError("EXIT_NETWORK_ERROR", resp.message)]
       ELSE [s |-> s1, outcome |-> ReturnNone]

\* check_and_log_response(resp)
check_and_log_response(s, resp) ==
  LET s1 == [s EXCEPT !.trace = Append(@, [ev |-> "log", code |-> resp.responseCode,
                                           message |-> resp.message])]
  IN IF resp.responseCode # OK
       THEN [s |-> s1, outcome |-> RaiseCommandError("EXIT_NETWORK_ERROR", resp.message)]
       ELSE [s |-> s1, outcome |-> ReturnNone]

\* the mutant of KeysOf: the jobs of one response are taken last first
KeysOf_Reversed(cluster, resp) ==
  [k \in 1..Len(resp.configs) |->
     AuroraJobKey(cluster, resp.configs[Len(resp.configs) + 1 - k].role,
                  resp.configs[Len(resp.configs) + 1 - k].env,
                  resp.configs[Len(resp.configs) + 1 - k].name)]

\* the keys one response adds: AuroraJobKey(cluster, job.key.role, job.key.environment,
\* job.key.name) for job in resp.result.getJobsResult.configs
KeysOf(cluster, resp) ==
  [k \in 1..Len(resp.configs) |->
     AuroraJobKey(cluster, resp.configs[k].role, resp.configs[k].env, resp.configs[k].name)]

\* the mutant of the loop: a cluster that answers not OK is skipped and the loop goes on
RECURSIVE ListLoop_KeepsGoing(_, _, _, _, _, _, _)
ListLoop_KeepsGoing(s, clusters, i, role, failAt, resps, result) ==
  IF i > Len(clusters) THEN [s |-> s, outcome |-> Return(result)]
  ELSE
    LET cluster == clusters[i]
        a == get_api(s, cluster, failAt)
        resp == resps[i]
        s2 == [a.s EXCEPT !.trace = Append(@, [ev |-> "get_jobs", cluster |-> cluster,
                                               api |-> a.api, role |-> role,
                                               resp |-> resp])]
    IN IF a.raised THEN [s |-> a.s, outcome |-> ClientError]
       ELSE ListLoop_KeepsGoing(s2, clusters, i + 1, role, failAt, resps,
                                IF resp.responseCode # OK THEN result
                                ELSE result \o [k \in 1..Len(resp.configs) |->
                                       AuroraJobKey(cluster, resp.configs[k].role,
                                                    resp.configs[k].env,
                                                    resp.configs[k].name)])

\* the loop `for cluster in clusters` of get_job_list, from the i-th cluster on
RECURSIVE ListLoop(_, _, _, _, _, _, _)
ListLoop(s, clusters, i, role, failAt, resps, result) ==
  IF i > Len(clusters) THEN [s |-> s, outcome |-> Return(result)]
  ELSE
    LET cluster == clusters[i]
        a == get_api(s, cluster, failAt)
        resp == resps[i]
        s2 == [a.s EXCEPT !.trace = Append(@, [ev |-> "get_jobs", cluster |-> cluster,
                                               api |-> a.api, role |-> role,
                                               resp |-> resp])]
    IN IF a.raised THEN [s |-> a.s, outcome |-> ClientError]
       ELSE IF resp.responseCode # OK
         THEN [s |-> s2, outcome |-> RaiseCommandError("EXIT_COMMAND_FAILURE", resp.message)]
       ELSE ListLoop(s2, clusters, i + 1, role, failAt, resps,
                     result \o KeysOf(cluster, resp))

\* the mutant of get_job_list: the role is dropped only when it equals '*'
get_job_list_ExactStar(s, clusters, role, failAt, resps) ==
  IF role = None
    THEN [s |-> s, outcome |-> Raise("TypeError", "", "")]
    ELSE ListLoop(s, clusters, 1, IF role = <<"*">> THEN None ELSE role,
                  failAt, resps, <<>>)

\* get_job_list(clusters, role); role None is the omitted parameter's default
get_job_list(s, clusters, role, failAt, resps) ==
  IF role = None
    THEN [s |-> s, outcome |-> Raise("TypeError", "", "")]
    ELSE ListLoop(s, clusters, 1, IF "*" \in Range(role) THEN None ELSE role,
                  failAt, resps, <<>>)

\* the mutant of clusters_to_search: any cluster field with a '*' in it searches the registry
clusters_to_search_AnyStar(key) ==
  IF "*" \in Range(key.cluster) THEN CLUSTERS ELSE <<key.cluster>>

\* clusters_to_search of get_jobs_matching_key
clusters_to_search(key) ==
  IF key.cluster = <<"*">> THEN CLUSTERS ELSE <<key.cluster>>

\* the mutant of get_jobs_matching_key: no fast path, every key is looked up by listing
get_jobs_matching_key_NoFastPath(s, key, failAt, resps) ==
  LET l == get_job_list(s, clusters_to_search(key), key.role, failAt, resps)
  IN IF l.outcome.kind = "raise" THEN l
     ELSE [s |-> l.s,
           outcome |-> Return(filter_job_list(l.outcome.value, key.role, key.env, key.name))]

\* get_jobs_matching_key(key)
get_jobs_matching_key(s, key, failAt, resps) ==
  IF is_fully_bound(key)
    THEN [s |-> s, outcome |-> Return(<<AuroraJobKey(key.cluster, key.role, key.env, key.name)>>)]
    ELSE LET l == get_job_list(s, clusters_to_search(key), key.role, failAt, resps)
         IN IF l.outcome.kind = "raise" THEN l
            ELSE [s |-> l.s,
                  outcome |-> Return(filter_job_list(l.outcome.value, key.role, key.env,
                                                     key.name))]

\* the mutant of get_job_status: an empty task list is returned as it is
get_job_status_NoOrNone(s, key, failAt, resp) ==
  LET a == get_api(s, key.cluster, failAt)
      s2 == [a.s EXCEPT !.trace = Append(@, [ev |-> "check_status", cluster |-> key.cluster,
                                             api |-> a.api, key |-> key, resp |-> resp])]
  IN IF a.raised THEN [s |-> a.s, outcome |-> ClientError]
     ELSE IF resp.responseCode # OK
       THEN [s |-> s2, outcome |-> RaiseCommandError("EXIT_INVALID_PARAMETER", resp.message)]
     ELSE [s |-> s2,
           outcome |-> IF resp.tasks = None THEN ReturnNone ELSE Return(resp.tasks)]

\* get_job_status(key)
get_job_status(s, key, failAt, resp) ==
  LET a == get_api(s, key.cluster, failAt)
      s2 == [a.s EXCEPT !.trace = Append(@, [ev |-> "check_status", cluster |-> key.cluster,
                                             api |-> a.api, key |-> key, resp |-> resp])]
  IN IF a.raised THEN [s |-> a.s, outcome |-> ClientError]
     ELSE IF resp.responseCode # OK
       THEN [s |-> s2, outcome |-> RaiseCommandError("EXIT_INVALID_PARAMETER", resp.message)]
     ELSE [s |-> s2,
           outcome |-> IF resp.tasks = None \/ resp.tasks = <<>> THEN ReturnNone
                       ELSE Return(resp.tasks)]

-----------------------------------------------------------------------------
(* The state machine: one session of one AuroraCommandContext.  The context keeps
   self.apis between calls and nothing else; the command layer makes one call at a
   time and takes its outcome before it makes the next. *)

NoCall == [name |-> "none"]

\* callers that share one context (none is running in the sequential session)
Threads == {"t1", "t2"}

\* the local variable api of get_api before line 57 binds it
NoHandle == [cluster |-> None, serial |-> 0]

NoThread == [pc |-> "idle", cluster |-> None, api |-> NoHandle, calls |-> 0]

RECURSIVE SumOver(_, _)
SumOver(f, S) ==
  IF S = {} THEN 0 ELSE LET c == CHOOSE c \in S : TRUE IN f[c] + SumOver(f, S \ {c})

\* the names whose construction may fail in a call that asks for the handles of S
FailChoices(S) ==
  IF SumOver(failed, Names) < MaxFailures THEN S \cup {None} ELSE {None}

Init ==
  /\ apis = <<>>
  /\ made = [c \in Names |-> 0]
  /\ failed = [c \in Names |-> 0]
  /\ asked = {}
  /\ handed = {}
  /\ call = NoCall
  /\ outcome = ReturnNone
  /\ trace = <<>>
  /\ threads = [t \in Threads |-> NoThread]
  /\ dirs = {}
  /\ ops = <<>>

\* the call c ran to its end r
Done(c, r) ==
  /\ apis' = r.s.apis
  /\ made' = r.s.made
  /\ failed' = r.s.failed
  /\ asked' = r.s.asked
  /\ handed' = r.s.handed
  /\ trace' = r.s.trace
  /\ call' = c
  /\ outcome' = r.outcome
  /\ UNCHANGED <<threads, dirs, ops>>

GetApi ==
  /\ call = NoCall
  /\ \E cluster \in Names : \E failAt \in FailChoices({cluster}) :
       LET a == get_api(Session, cluster, failAt)
       IN Done([name |-> "get_api", cluster |-> cluster],
               [s |-> a.s, outcome |-> IF a.raised THEN ClientError ELSE Return(a.api)])

CheckAndLogResponse ==
  /\ call = NoCall
  /\ \E resp \in JobsResponses \cup StatusResponses :
       Done([name |-> "check_and_log_response", resp |-> resp],
            check_and_log_response(Session, resp))

ParsePartialJobkey ==
  /\ call = NoCall
  /\ \E key \in RawKeys :
       Done([name |-> "parse_partial_jobkey", key |-> key],
            [s |-> Session, outcome |-> parse_partial_jobkey(key)])

GetJobList ==
  /\ call = NoCall
  /\ \E clusters \in ClusterLists : \E role \in RolePool \cup {None} :
     \E failAt \in FailChoices(Range(clusters)) :
     \E resps \in [1..Len(clusters) -> JobsResponses] :
       Done([name |-> "get_job_list", clusters |-> clusters, role |-> role],
            get_job_list(Session, clusters, role, failAt, resps))

GetJobsMatchingKey ==
  /\ call = NoCall
  /\ \E key \in PatternPool :
     \E failAt \in FailChoices(Range(clusters_to_search(key))) :
     \E resps \in [1..Len(clusters_to_search(key)) -> JobsResponses] :
       Done([name |-> "get_jobs_matching_key", key |-> key],
            get_jobs_matching_key(Session, key, failAt, resps))

GetJobStatus ==
  /\ call = NoCall
  /\ \E key \in StatusKeys : \E failAt \in FailChoices({key.cluster}) :
     \E resp \in StatusResponses :
       Done([name |-> "get_job_status", key |-> key],
            get_job_status(Session, key, failAt, resp))

\* the command layer has taken the outcome; the context is left with self.apis
NextCommand ==
  /\ call # NoCall
  /\ call' = NoCall
  /\ outcome' = ReturnNone
  /\ trace' = <<>>
  /\ UNCHANGED <<apis, made, failed, asked, handed, threads, dirs, ops>>

Next ==
  \/ GetApi
  \/ CheckAndLogResponse
  \/ ParsePartialJobkey
  \/ GetJobList
  \/ GetJobsMatchingKey
  \/ GetJobStatus
  \/ NextCommand

Spec == Init /\ [][Next]_vars

-----------------------------------------------------------------------------
(* What the properties below read off a finished call. *)

Events(ev) == SelectSeq(trace, LAMBDA e : e.ev = ev)

\* a field with a glob wildcard in it
HasWildcard(field) == "*" \in Range(field) \/ "?" \in Range(field)

Fields(key) == <<key.cluster, key.role, key.env, key.name>>

\* shell-glob matching, stated without the matcher: the name is cut into one piece per
\* pattern character, any piece for '*', one character for '?', the character itself else
GlobMatches(name, pat) ==
  \E cut \in [0..Len(pat) -> 0..Len(name)] :
    /\ cut[0] = 0
    /\ cut[Len(pat)] = Len(name)
    /\ \A i \in 1..Len(pat) :
         /\ cut[i - 1] <= cut[i]
         /\ \/ pat[i] = "*"
            \/ /\ cut[i] = cut[i - 1] + 1
               /\ pat[i] = "?" \/ pat[i] = name[cut[i]]

\* the jobs the listing calls of the finished call were answered with, each with the
\* cluster that listed it
ListedJobs ==
  UNION { { [cluster |-> e.cluster, role |-> j.role, env |-> j.env, name |-> j.name] :
              j \in Range(e.resp.configs) } : e \in Range(Events("get_jobs")) }

\* segments joined with '/'
RECURSIVE Join(_)
Join(segs) ==
  IF Len(segs) = 0 THEN <<>>
  ELSE IF Len(segs) = 1 THEN segs[1]
  ELSE segs[1] \o <<"/">> \o Join(Tail(segs))

-----------------------------------------------------------------------------
(* Properties. *)

\* C1: in one session every get_api call for a cluster name returns the same handle
\* instance, and make_client is invoked exactly once for each name asked for, as long
\* as no construction for that name failed (and never for a name not asked for).
C1_OneHandlePerCluster ==
  \A c \in Names :
    /\ Cardinality({p \in handed : p[1] = c}) <= 1
    /\ (c \in asked /\ failed[c] = 0) => made[c] = 1
    /\ c \notin asked => made[c] = 0
    /\ (call.name = "get_api" /\ call.cluster = c /\ outcome.kind = "return")
         => (c \in DOMAIN apis /\ outcome.value = apis[c] /\ <<c, outcome.value>> \in handed)

\* a get_api call answered from the cache: the name was asked for before
C1_Witness ==
  /\ call.name = "get_api"
  /\ outcome.kind = "return"
  /\ Len(Events("make_client")) = 0

\* C2: when a listing response of get_job_list is not OK, the call raises the classified
\* CommandError and returns no jobs, whatever earlier clusters listed.
C2_FailedListingRaisesCommandError ==
  (/\ call.name = "get_job_list"
   /\ \E e \in Range(Events("get_jobs")) : e.resp.responseCode # OK)
  => (outcome.kind = "raise" /\ outcome.exc = "CommandError" /\ outcome.value = <<>>)

\* C3: get_jobs_matching_key on a pattern without a wildcard in any field makes no
\* remote call, asks the cache for no handle and constructs none, and returns exactly
\* the one key built from the four fields.
C3_FullyBoundIsLocal ==
  (/\ call.name = "get_jobs_matching_key"
   /\ \A i \in 1..4 : ~ HasWildcard(Fields(call.key)[i]))
  => /\ trace = <<>>
     /\ outcome = Return(<< [cluster |-> call.key.cluster, role |-> call.key.role,
                             env |-> call.key.env, name |-> call.key.name] >>)

C3_Witness ==
  /\ call.name = "get_jobs_matching_key"
  /\ \A i \in 1..4 : ~ HasWildcard(Fields(call.key)[i])
  /\ DOMAIN apis # {}

\* C4: get_jobs_matching_key on a pattern with a glob wildcard ('*' or '?') in at least
\* one field returns, when no listing fails, exactly the listed jobs of the candidate
\* clusters whose role, environment and name glob-match the pattern, and no other key.
C4_WildcardPatternFiltersListings ==
  (/\ call.name = "get_jobs_matching_key"
   /\ \E i \in 1..4 : HasWildcard(Fields(call.key)[i])
   /\ outcome.kind = "return")
  => /\ {e.cluster : e \in Range(Events("get_jobs"))} = Range(clusters_to_search(call.key))
     /\ Range(outcome.value) =
          { j \in ListedJobs : /\ GlobMatches(j.role, call.key.role)
                               /\ GlobMatches(j.env, call.key.env)
                               /\ GlobMatches(j.name, call.key.name) }

\* C5: parse_partial_jobkey on a key of k <= 4 segments returns the pattern whose first
\* k fields are the segments in order and whose other fields are '*'; on a key of more
\* than 4 segments it raises CommandError with EXIT_INVALID_PARAMETER.
C5_ParsePadsOrRejects ==
  call.name = "parse_partial_jobkey" =>
    LET k == 1 + Cardinality({i \in 1..Len(call.key) : call.key[i] = "/"})
        f == Fields(outcome.value)
    IN IF k <= 4
         THEN /\ outcome.kind = "return"
              /\ \A i \in 1..k : "/" \notin Range(f[i])
              /\ Join(SubSeq(f, 1, k)) = call.key
              /\ \A i \in (k + 1)..4 : f[i] = <<"*">>
         ELSE /\ outcome.kind = "raise"
              /\ outcome.exc = "CommandError"
              /\ outcome.code = EXIT_INVALID_PARAMETER

\* a key of two segments, padded with two wildcards
C5_Witness ==
  /\ call.name = "parse_partial_jobkey"
  /\ Cardinality({i \in 1..Len(call.key) : call.key[i] = "/"}) = 1
  /\ outcome.kind = "return"
  /\ outcome.value.env = <<"*">>

\* C6 as stated: check_and_log_response on an OK envelope returns the envelope's payload
\* unmodified after exactly one log record; on another envelope it raises an error with
\* the envelope's message after the same one log record.
C6_ValidatorReturnsPayload ==
  call.name = "check_and_log_response" =>
    LET resp == call.resp
    IN /\ trace = << [ev |-> "log", code |-> resp.responseCode, message |-> resp.message] >>
       /\ IF resp.responseCode = OK
            THEN /\ outcome.kind = "return"
                 /\ IF "configs" \in DOMAIN resp
                      THEN ~ outcome.isNone /\ outcome.value = resp.configs
                      ELSE IF resp.tasks = None THEN outcome.isNone
                      ELSE ~ outcome.isNone /\ outcome.value = resp.tasks
            ELSE outcome.kind = "raise" /\ outcome.msg = resp.message

\* C6 as amended: check_and_log_response on an OK envelope returns None (not the
\* payload) after exactly one log record; on another envelope it raises CommandError
\* with the envelope's message after the same one log record.
C6_ValidatorReturnsNone ==
  call.name = "check_and_log_response" =>
    LET resp == call.resp
    IN /\ trace = << [ev |-> "log", code |-> resp.responseCode, message |-> resp.message] >>
       /\ IF resp.responseCode = OK
            THEN outcome.kind = "return" /\ outcome.isNone
            ELSE /\ outcome.kind = "raise"
                 /\ outcome.exc = "CommandError"
                 /\ outcome.msg = resp.message

\* an OK envelope with jobs in its payload went through the validator: logged once,
\* and None came back
C6_Witness ==
  /\ call.name = "check_and_log_response"
  /\ call.resp.responseCode = OK
  /\ "configs" \in DOMAIN call.resp
  /\ Len(call.resp.configs) > 0
  /\ Len(trace) = 1
  /\ outcome.kind = "return"
  /\ outcome.isNone

\* C7: a get_api call for a name that is not cached invokes make_client; when that
\* fails the failure reaches the caller and the cache is left as it was, so that the
\* next get_api for the name constructs again; when it succeeds the handle is cached
\* and returned; the entries of the other names stay as they were.
C7_FailedConstructionNotCached ==
  [][ \A c \in Names :
        (call'.name = "get_api" /\ call'.cluster = c /\ c \notin DOMAIN apis)
        => /\ made'[c] = made[c] + 1
           /\ IF failed'[c] # failed[c]
                THEN /\ failed'[c] = failed[c] + 1
                     /\ outcome' = ClientError
                     /\ apis' = apis
                ELSE /\ outcome'.kind = "return"
                     /\ c \in DOMAIN apis'
                     /\ apis'[c] = outcome'.value
           /\ \A d \in DOMAIN apis : d \in DOMAIN apis' /\ apis'[d] = apis[d] ]_vars

\* a get_api call that constructed and cached a client for a name whose earlier
\* construction had failed, with another name's entry in the cache
C7_Witness ==
  /\ call.name = "get_api"
  /\ failed[call.cluster] >= 1
  /\ Len(Events("make_client")) = 1
  /\ call.cluster \in DOMAIN apis
  /\ DOMAIN apis # {call.cluster}

\* C8: get_job_status(key) asks the cache for the handle of key.cluster and issues
\* exactly one status RPC, on that handle; a response that is not OK raises
\* CommandError with EXIT_INVALID_PARAMETER and the server's message; an OK response
\* returns the task list, or None when it is empty or absent.
C8_StatusQuery ==
  call.name = "get_job_status" =>
    /\ trace[1] = [ev |-> "get_api", cluster |-> call.key.cluster]
    /\ Len(Events("get_api")) = 1
    /\ Len(Events("get_jobs")) = 0
    /\ IF \E e \in Range(Events("make_client")) : ~ e.ok
         THEN outcome = ClientError /\ Len(Events("check_status")) = 0
         ELSE LET rpcs == Events("check_status")
                  resp == rpcs[1].resp
              IN /\ Len(rpcs) = 1
                 /\ rpcs[1].api = apis[call.key.cluster]
                 /\ rpcs[1].key = call.key
                 /\ IF resp.responseCode # OK
                      THEN outcome = Raise("CommandError", EXIT_INVALID_PARAMETER, resp.message)
                      ELSE IF resp.tasks = None \/ Len(resp.tasks) = 0
                        THEN outcome = ReturnNone
                      ELSE outcome = Return(resp.tasks)

\* a status query the server answered with an empty task list
C8_Witness ==
  /\ call.name = "get_job_status"
  /\ \E e \in Range(Events("check_status")) : e.resp.responseCode = OK /\ e.resp.tasks = <<>>
  /\ outcome.isNone

\* C9: when a listing RPC of get_job_list is answered with a code that is not OK, the
\* caller gets a CommandError with the EXIT_NETWORK_ERROR classification and the
\* server's message.
C9_FailedListingIsNetworkError ==
  \A e \in Range(Events("get_jobs")) :
    e.resp.responseCode # OK => outcome = Raise("CommandError", EXIT_NETWORK_ERROR, e.resp.message)

\* the role argument of the listing the finished call made
RoleArg == IF call.name = "get_job_list" THEN call.role ELSE call.key.role

\* C10 as stated: a listing RPC gets no role filter exactly when the role argument is
\* '*'; every other role argument, a glob such as 'a*' included, is passed unchanged.
C10_RoleDroppedOnlyForStar ==
  \A e \in Range(Events("get_jobs")) :
    e.role = IF RoleArg = <<"*">> THEN None ELSE RoleArg

\* C10 as amended: a listing RPC gets no role filter exactly when the role argument
\* contains '*' ('*' itself, or a glob such as 'a*'); every other role argument, a glob
\* such as 'a?' included, is passed unchanged.
C10_RoleDroppedWhenItHasStar ==
  \A e \in Range(Events("get_jobs")) :
    e.role = IF "*" \in Range(RoleArg) THEN None ELSE RoleArg

\* a listing for the role 'a*', sent without a role filter
C10_Witness ==
  /\ call.name = "get_job_list"
  /\ call.role = <<"a", "*">>
  /\ \E e \in Range(Events("get_jobs")) : e.role = None

\* the remote responses the finished call received, in order
Rpcs == SelectSeq(trace, LAMBDA e : e.ev \in {"get_jobs", "check_status"})

\* C11: every remote response get_job_list and get_job_status receive goes through the
\* response validator: the call emits as many log records as it received responses,
\* each right after its response and before the payload is used or the error raised.
C11_EveryResponseIsLogged ==
  call.name \in {"get_job_list", "get_jobs_matching_key", "get_job_status"} =>
    /\ Len(Events("log")) = Len(Rpcs)
    /\ \A i \in 1..Len(trace) :
         trace[i].ev \in {"get_jobs", "check_status"} =>
           /\ i < Len(trace)
           /\ trace[i + 1].ev = "log"
           /\ trace[i + 1].code = trace[i].resp.responseCode
           /\ trace[i + 1].message = trace[i].resp.message

\* the keys of the listings the finished call received, in the order received, each
\* with the cluster that was asked
RECURSIVE TaggedFrom(_)
TaggedFrom(events) ==
  IF events = <<>> THEN <<>>
  ELSE [k \in 1..Len(Head(events).resp.configs) |->
          [cluster |-> Head(events).cluster,
           role |-> Head(events).resp.configs[k].role,
           env |-> Head(events).resp.configs[k].env,
           name |-> Head(events).resp.configs[k].name]]
       \o TaggedFrom(Tail(events))

\* C13: get_job_list called with the role parameter omitted (role None) does not fail
\* on that account: it lists every given cluster without a role filter and returns all
\* their jobs.
C13_OmittedRoleListsAll ==
  (call.name = "get_job_list" /\ call.role = None) =>
    /\ outcome.exc # "TypeError"
    /\ outcome.kind = "return" =>
         /\ [i \in 1..Len(Events("get_jobs")) |-> Events("get_jobs")[i].cluster] = call.clusters
         /\ \A e \in Range(Events("get_jobs")) : e.role = None
         /\ outcome.value = TaggedFrom(Events("get_jobs"))

-----------------------------------------------------------------------------
(* Callers that share one context and run get_api concurrently.  get_api takes no
   lock, so its statements (lines 56 to 59) of different callers interleave; pc is
   the line a caller is about to run. *)

Sequential == <<call, outcome, trace, dirs, ops>>

\* a caller enters get_api(cluster)
CallGetApi(t) ==
  /\ threads[t].pc = "idle"
  /\ threads[t].calls < MaxCalls
  /\ \E cluster \in Names :
       /\ threads' = [threads EXCEPT ![t] = [pc |-> "56", cluster |-> cluster,
                                             api |-> NoHandle, calls |-> @.calls + 1]]
       /\ asked' = asked \cup {cluster}
  /\ UNCHANGED <<apis, made, failed, handed>>
  /\ UNCHANGED Sequential

\* line 56: if cluster not in self.apis
TestCached(t) ==
  /\ threads[t].pc = "56"
  /\ threads' = [threads EXCEPT ![t].pc =
                   IF threads[t].cluster \in DOMAIN apis THEN "59" ELSE "57"]
  /\ UNCHANGED <<apis, made, failed, asked, handed>>
  /\ UNCHANGED Sequential

\* line 57: api = make_client(cluster), which returns a new client
Construct(t) ==
  /\ threads[t].pc = "57"
  /\ LET cluster == threads[t].cluster
     IN /\ made' = [made EXCEPT ![cluster] = @ + 1]
        /\ threads' = [threads EXCEPT ![t].pc = "58",
                                      ![t].api = [cluster |-> cluster,
                                                  serial |-> made[cluster] + 1]]
  /\ UNCHANGED <<apis, failed, asked, handed>>
  /\ UNCHANGED Sequential

\* line 57: api = make_client(cluster), which raises; the caller leaves get_api
ConstructFails(t) ==
  /\ threads[t].pc = "57"
  /\ SumOver(failed, Names) < MaxFailures
  /\ LET cluster == threads[t].cluster
     IN /\ made' = [made EXCEPT ![cluster] = @ + 1]
        /\ failed' = [failed EXCEPT ![cluster] = @ + 1]
  /\ threads' = [threads EXCEPT ![t].pc = "idle"]
  /\ UNCHANGED <<apis, asked, handed>>
  /\ UNCHANGED Sequential

\* line 58: self.apis[cluster] = api
Store(t) ==
  /\ threads[t].pc = "58"
  /\ apis' = [c \in DOMAIN apis \cup {threads[t].cluster} |->
                IF c = threads[t].cluster THEN threads[t].api ELSE apis[c]]
  /\ threads' = [threads EXCEPT ![t].pc = "59"]
  /\ UNCHANGED <<made, failed, asked, handed>>
  /\ UNCHANGED Sequential

\* line 59: return self.apis[cluster]
ReturnHandle(t) ==
  /\ threads[t].pc = "59"
  /\ handed' = handed \cup {<<threads[t].cluster, apis[threads[t].cluster]>>}
  /\ threads' = [threads EXCEPT ![t].pc = "idle"]
  /\ UNCHANGED <<apis, made, failed, asked>>
  /\ UNCHANGED Sequential

NextConcurrent ==
  \E t \in Threads :
    \/ CallGetApi(t)
    \/ TestCached(t)
    \/ Construct(t)
    \/ ConstructFails(t)
    \/ Store(t)
    \/ ReturnHandle(t)

SpecConcurrent == Init /\ [][NextConcurrent]_vars

\* C12: when callers run get_api for the same uncached cluster concurrently, exactly
\* one client is constructed for it and every caller gets that one instance: no
\* interleaving hands out two distinct handles for one cluster.
C12_OneWinnerPerCluster ==
  \A c \in Names :
    /\ Cardinality({p \in handed : p[1] = c}) <= 1
    /\ made[c] - failed[c] <= 1

-----------------------------------------------------------------------------
(* DirectorySandbox (apache.aurora.executor.common.sandbox), as exercised by
   test_directory_sandbox.  A path is the sequence of its components below the
   temporary directory d; dirs is the set of directories that exist below d and ops
   is the history of the operations run, oldest first. *)

\* ds1 = DirectorySandbox(os.path.join(d, 'task1')), named by its root
ds1 == <<"task1">>
\* ds2 = DirectorySandbox(os.path.join(d, 'task2'))
ds2 == <<"task2">>
\* a sandbox whose root lies inside the root of ds1
ds3 == <<"task1", "sub">>

Sandboxes == {ds1, ds2, ds3}

\* path p is q or lies below q
Inside(p, q) == Len(q) <= Len(p) /\ SubSeq(p, 1, Len(q)) = q

\* create makes the root directory and the missing directories above it
mkdir_p(fs, root) == fs \cup {SubSeq(root, 1, n) : n \in 1..Len(root)}

\* removes the directory that holds the root, and so every sandbox in it
rmtree_Parent(fs, root) == {p \in fs : ~Inside(p, SubSeq(root, 1, Len(root) - 1))}

\* destroy removes the root directory and everything below it
rmtree(fs, root) == {p \in fs : ~Inside(p, root)}

\* ds.create()
Create(ds) ==
  /\ Len(ops) < MaxOps
  /\ dirs' = mkdir_p(dirs, ds)
  /\ ops' = Append(ops, [root |-> ds, op |-> "create"])
  /\ UNCHANGED <<apis, made, failed, asked, handed, call, outcome, trace, threads>>

\* ds.destroy()
Destroy(ds) ==
  /\ Len(ops) < MaxOps
  /\ dirs' = rmtree(dirs, ds)
  /\ ops' = Append(ops, [root |-> ds, op |-> "destroy"])
  /\ UNCHANGED <<apis, made, failed, asked, handed, call, outcome, trace, threads>>

NextSandbox ==
  \E ds \in Sandboxes :
    \/ Create(ds)
    \/ Destroy(ds)

SpecSandbox == Init /\ [][NextSandbox]_vars

\* the operations run on the sandbox with this root, oldest first
OpsOn(root) == SelectSeq(ops, LAMBDA o : o.root = root)

\* the most recent operation on the sandbox was create
LastWasCreate(root) ==
  OpsOn(root) # <<>> /\ OpsOn(root)[Len(OpsOn(root))].op = "create"

\* only the two sandboxes a and b have been operated on
OnlyUsed(a, b) == \A i \in 1..Len(ops) : ops[i].root \in {a, b}

C15_InOrderFailFast ==
  call.name = "get_job_list" =>
    /\ Len(Events("get_api")) <= Len(call.clusters)
    /\ Len(Events("get_jobs")) <= Len(Events("get_api"))
    /\ Len(Events("get_api")) <= Len(Events("get_jobs")) + 1
    /\ \A i \in 1..Len(Events("get_api")) :
         Events("get_api")[i].cluster = call.clusters[i]
    /\ \A i \in 1..Len(Events("get_jobs")) :
         Events("get_jobs")[i].cluster = call.clusters[i]
    /\ \A i \in 1..Len(trace) :
         (trace[i].ev = "get_jobs" /\ trace[i].resp.responseCode # OK) => i = Len(trace)

\* the first of two clusters answered not OK, and the second was left alone
C15_Witness ==
  /\ call.name = "get_job_list"
  /\ Len(call.clusters) = 2
  /\ call.clusters[1] # call.clusters[2]
  /\ Len(Events("get_jobs")) = 1
  /\ Events("get_jobs")[1].resp.responseCode # OK
  /\ Len(Events("get_api")) = 1
  /\ call.clusters[2] \notin asked


Candidates(key) == IF key.cluster = <<"*">> THEN Range(CLUSTERS) ELSE {key.cluster}

\* the clusters the finished call sent a listing call to
Contacted == {e.cluster : e \in Range(Events("get_jobs"))}

\* C17 (as stated): on the listing path of get_jobs_matching_key the set of clusters
\* contacted is the candidate set (the whole registry when the pattern's cluster is the
\* wildcard token, the pattern's cluster alone otherwise), and every returned key's
\* cluster is in the candidate set.
C17_ContactsCandidateSet ==
  (call.name = "get_jobs_matching_key" /\ ~ is_fully_bound(call.key)) =>
    /\ Contacted = Candidates(call.key)
    /\ \A k \in Range(outcome.value) : k.cluster \in Candidates(call.key)

\* C17 (amended): on the listing path of get_jobs_matching_key no cluster outside the
\* candidate set is contacted or asked a handle for, every returned key's cluster is in
\* the candidate set, and when the call returns the set of clusters contacted is the
\* whole candidate set; a call that fails has contacted only the candidates up to the
\* failing one.
C17_ContactsWithinCandidateSet ==
  (call.name = "get_jobs_matching_key" /\ ~ is_fully_bound(call.key)) =>
    /\ Contacted \subseteq Candidates(call.key)
    /\ {e.cluster : e \in Range(Events("get_api"))} \subseteq Candidates(call.key)
    /\ \A k \in Range(outcome.value) : k.cluster \in Candidates(call.key)
    /\ outcome.kind = "return" => Contacted = Candidates(call.key)
    /\ outcome.kind = "raise" =>
         \E n \in 0..Len(clusters_to_search(call.key)) :
           {e.cluster : e \in Range(Events("get_api"))} =
             {clusters_to_search(call.key)[i] : i \in 1..n}

\* a pattern with the wildcard cluster resolved over the whole registry to some key
C17_Witness ==
  /\ call.name = "get_jobs_matching_key"
  /\ call.key.cluster = <<"*">>
  /\ outcome.kind = "return"
  /\ Contacted = Range(CLUSTERS)
  /\ outcome.value # <<>>


\* a is b with some elements left out, the rest in b's order
RECURSIVE IsSubseq(_, _)
IsSubseq(a, b) ==
  IF Len(a) = 0 THEN TRUE
  ELSE IF Len(b) = 0 THEN FALSE
  ELSE IF Head(a) = Head(b) THEN IsSubseq(Tail(a), Tail(b))
  ELSE IsSubseq(a, Tail(b))

\* C18: when every cluster's listing succeeds, get_job_list (given a role) returns the
\* concatenation, in the order the clusters were given, of each cluster's jobs in the
\* order that cluster returned them, each tagged with the cluster it was fetched from;
\* get_jobs_matching_key on the listing path returns an order-preserving subsequence
\* of that sequence.
C18_ListingOrderIsKept ==
  /\ (call.name = "get_job_list" /\ call.role # None) =>
       /\ (/\ Len(Events("get_jobs")) = Len(call.clusters)
           /\ \A e \in Range(Events("get_jobs")) : e.resp.responseCode = OK)
          => outcome.kind = "return"
       /\ outcome.kind = "return" =>
            /\ [i \in 1..Len(Events("get_jobs")) |-> Events("get_jobs")[i].cluster]
                 = call.clusters
            /\ outcome.value = TaggedFrom(Events("get_jobs"))
  /\ (call.name = "get_jobs_matching_key" /\ ~ is_fully_bound(call.key)
      /\ outcome.kind = "return") =>
       IsSubseq(outcome.value, TaggedFrom(Events("get_jobs")))

\* two clusters listed in the order y, x, the first with two different jobs
C18_Witness ==
  /\ call.name = "get_job_list"
  /\ call.clusters = << <<"y">>, <<"x">> >>
  /\ outcome.kind = "return"
  /\ Len(outcome.value) >= 3
  /\ outcome.value[1].cluster = <<"y">>
  /\ outcome.value[1] # [outcome.value[2] EXCEPT !.cluster = <<"y">>]
  /\ outcome.value[Len(outcome.value)].cluster = <<"x">>


\* C19: round trip.  Resolving a fully bound four-field pattern, joining the four
\* fields of the resulting key with '/', parsing that string and resolving the parsed
\* pattern again gives the same single key, again without changing the session.
C19_ResolveJoinParseResolve ==
  (/\ call.name = "get_jobs_matching_key"
   /\ \A i \in 1..4 : "*" \notin Range(Fields(call.key)[i]))
  => /\ outcome.kind = "return"
     /\ Len(outcome.value) = 1
     /\ LET parsed == parse_partial_jobkey(Join(Fields(outcome.value[1])))
        IN /\ parsed.kind = "return"
           /\ parsed.value = call.key
           /\ get_jobs_matching_key(Session, parsed.value, None, <<>>).outcome = outcome
           /\ get_jobs_matching_key(Session, parsed.value, None, <<>>).s = Session

\* a fully bound pattern was resolved and its key reads 'y/a/p/n' when joined
C19_Witness ==
  /\ call.name = "get_jobs_matching_key"
  /\ outcome.kind = "return"
  /\ Len(outcome.value) = 1
  /\ Join(Fields(outcome.value[1])) = <<"y", "/", "a", "/", "p", "/", "n">>
  /\ trace = <<>>



\* C20: the handle cache only grows during a session.  No operation, one that ends in
\* an error included, removes or replaces a stored handle, and get_api(c) leaves the
\* cache as it was for every cluster other than c.
C20_CacheOnlyGrows ==
  [][ /\ \A c \in DOMAIN apis : c \in DOMAIN apis' /\ apis'[c] = apis[c]
      /\ call'.name = "get_api" =>
           \A d \in DOMAIN apis' \ {call'.cluster} : d \in DOMAIN apis ]_vars

\* a status query that failed on a cached handle, with the handles of both registry
\* clusters still in the cache
C20_Witness ==
  /\ call.name = "get_job_status"
  /\ outcome.kind = "raise"
  /\ Len(Events("make_client")) = 0
  /\ Range(CLUSTERS) \subseteq DOMAIN apis

====
